---------------------------- MODULE Spec2Model ----------------------------
(***************************************************************************)
(* Eidos: the process-wide model cache (src/src/main.rs), the command      *)
(* validators (lib_core/src/validation.rs, lib_core/src/tract_llm.rs,      *)
(* lib_core/src/lib.rs), Core::run / Core::execute_command and the `core`  *)
(* subcommand of the CLI.                                                  *)
(***************************************************************************)
EXTENDS Integers, Sequences, FiniteSets

\* ------------------------------------------------------------------ bounds
NumThreads == 2
MaxCalls == 3
MaxPieces == 3
MaxAlternatives == 3
MaxCount == 7
MaxBytes == 2
MaxLimit == 2
MaxOps == 3
MaxBridgeOps == 4

Threads == 1..NumThreads

\* Paths a caller may pass to get_or_load_model.
ModelPaths == {"a.onnx", "b.onnx"}
TokenizerPaths == {"tok.json", "alt.json"}
Keys == [model_path : ModelPaths, tokenizer_path : TokenizerPaths]

\* Option::None for cache.core and for a thread that owns no Arc<Core>.
None == 0

VARIABLES
    cache,      \* MODEL_CACHE: [core, model_path, tokenizer_path]
    readers,    \* threads holding the RwLock's read guard
    writer,     \* thread holding the RwLock's write guard, or None
    heap,       \* the Arc<Core> allocations: heap[h] = [model_path, tokenizer_path, strong, live]
    pc,         \* position of each thread in get_or_load_model
    req,        \* the (model_path, tokenizer_path) arguments of each thread's call
    held,       \* the Arc<Core> each thread owns after an Ok return, or None
    result,     \* what each thread's last call returned: [via, core, key]
    calls,      \* history: calls started so far, by all threads
    requested,  \* history: the keys requested so far
    loadsOk,    \* history: per key, Core::new calls that returned Ok
    loadsErr,   \* history: per key, Core::new calls that returned Err
    evicted,    \* history: per key, entries of that key replaced in the slot
    quiet,      \* history: no other key was requested since the thread's last Ok return
    contended,  \* history: the call began on the cached key while another key was being loaded
    gen,        \* the loaded model: what generate_command decodes for each prompt
    stdout,     \* lines the last operation printed with println!
    stderr,     \* lines the last operation printed with eprintln! or logged with warn!
    shell,      \* commands the last operation passed to `sh -c`
    ret,        \* what the last operation returned
    model_output,  \* history: the commands the last operation got from the model
    cmd,        \* the string given to the validators
    verdict,    \* the validators' answers for cmd, once computed
    alts,       \* a call of generate_alternatives: its arguments, Result and prompts
    messages,               \* ConversationHistory.messages
    max_messages,           \* ConversationHistory.max_messages
    max_bytes_total,        \* ConversationHistory.max_bytes_total
    max_bytes_per_message,  \* ConversationHistory.max_bytes_per_message
    kept_since_clear,       \* history: the messages accepted since the last clear
    last,       \* the last operation on the history: [op, ok, message, before]
    router,     \* Bridge.router: the handler of each request type, or NoHandler
    registered, \* history: the handlers registered for each request type, in their order
    routed      \* the last operation on the Bridge: [op, request, input, result, invoked, n]

cacheVars == <<cache, readers, writer, heap, pc, req, held, result>>
histVars == <<calls, requested, loadsOk, loadsErr, evicted, quiet, contended>>
cliVars == <<gen, stdout, stderr, shell, ret, model_output>>
valVars == <<cmd, verdict>>
altVars == <<alts>>
chatVars == <<messages, max_messages, max_bytes_total, max_bytes_per_message,
              kept_since_clear, last>>
bridgeVars == <<router, registered, routed>>
vars == <<cacheVars, histVars, cliVars, valVars, altVars, chatVars, bridgeVars>>

\* ------------------------------------------------------------------ strings
\* A Rust string is the sequence of its characters, each a one-character
\* string; the backtick has a name because TLA+ strings cannot hold it.
Backtick == "BACKTICK"

\* char::is_whitespace, for the characters of the model.
WhiteSpace == {" ", "\t", "\n", "\r", "\f"}

UpperLetters ==
    <<"A", "B", "C", "D", "E", "F", "G", "H", "I", "J", "K", "L", "M",
      "N", "O", "P", "Q", "R", "S", "T", "U", "V", "W", "X", "Y", "Z">>
LowerLetters ==
    <<"a", "b", "c", "d", "e", "f", "g", "h", "i", "j", "k", "l", "m",
      "n", "o", "p", "q", "r", "s", "t", "u", "v", "w", "x", "y", "z">>

\* str::to_lowercase / str::to_uppercase, character by character.
to_lowercase(s) ==
    [i \in 1..Len(s) |->
        IF \E j \in 1..26 : UpperLetters[j] = s[i]
        THEN LowerLetters[CHOOSE j \in 1..26 : UpperLetters[j] = s[i]]
        ELSE s[i]]
to_uppercase(s) ==
    [i \in 1..Len(s) |->
        IF \E j \in 1..26 : LowerLetters[j] = s[i]
        THEN UpperLetters[CHOOSE j \in 1..26 : LowerLetters[j] = s[i]]
        ELSE s[i]]

\* str::starts_with and str::contains for a string pattern.
starts_with(s, p) == Len(p) <= Len(s) /\ \A j \in 1..Len(p) : s[j] = p[j]
contains(s, p) ==
    \E i \in 0..(Len(s) - Len(p)) : \A j \in 1..Len(p) : s[i + j] = p[j]

\* str::trim: leading and trailing whitespace removed.
RECURSIVE trim_start(_)
trim_start(s) ==
    IF s = <<>> \/ Head(s) \notin WhiteSpace THEN s ELSE trim_start(Tail(s))
RECURSIVE trim_end(_)
trim_end(s) ==
    IF s = <<>> \/ s[Len(s)] \notin WhiteSpace THEN s
    ELSE trim_end(SubSeq(s, 1, Len(s) - 1))
trim(s) == trim_end(trim_start(s))

\* s.split_whitespace().next().unwrap_or(""): the first run of characters that
\* are not whitespace, or the empty string.
RECURSIVE take_word(_)
take_word(s) ==
    IF s = <<>> \/ Head(s) \in WhiteSpace THEN <<>>
    ELSE <<Head(s)>> \o take_word(Tail(s))
first_word_of(s) == take_word(trim_start(s))

\* ------------------------------------------- is_safe_command (validation.rs)

\* validation.rs:42-45
allowed_commands == {
    <<"l", "s">>, <<"p", "w", "d">>, <<"e", "c", "h", "o">>, <<"c", "a", "t">>,
    <<"h", "e", "a", "d">>, <<"t", "a", "i", "l">>, <<"g", "r", "e", "p">>, <<"f", "i", "n", "d">>,
    <<"w", "c">>, <<"d", "a", "t", "e">>, <<"w", "h", "o", "a", "m", "i">>, <<"h", "o", "s", "t", "n", "a", "m", "e">>,
    <<"u", "n", "a", "m", "e">>, <<"d", "f">>, <<"d", "u">>, <<"f", "r", "e", "e">>,
    <<"t", "o", "p">>, <<"p", "s">>, <<"w", "h", "i", "c", "h">>, <<"w", "h", "e", "r", "e", "i", "s">>,
    <<"f", "i", "l", "e">>, <<"s", "t", "a", "t">>
}

\* validation.rs:48-90 (the same list in tract_llm.rs:72-114)
dangerous_patterns == {
    <<"r", "m">>, <<"r", "m", "d", "i", "r">>, <<"d", "d">>, <<"m", "k", "f", "s">>,
    <<"f", "d", "i", "s", "k">>, <<"s", "h", "u", "t", "d", "o", "w", "n">>, <<"r", "e", "b", "o", "o", "t">>, <<"h", "a", "l", "t">>,
    <<"p", "o", "w", "e", "r", "o", "f", "f">>, <<"i", "n", "i", "t">>, <<"k", "i", "l", "l">>, <<"k", "i", "l", "l", "a", "l", "l">>,
    <<"p", "k", "i", "l", "l">>, <<"c", "h", "o", "w", "n">>, <<"c", "h", "m", "o", "d">>, <<"c", "h", "g", "r", "p">>,
    <<"u", "s", "e", "r", "a", "d", "d">>, <<"u", "s", "e", "r", "d", "e", "l">>, <<"g", "r", "o", "u", "p", "a", "d", "d">>, <<"g", "r", "o", "u", "p", "d", "e", "l">>,
    <<"p", "a", "s", "s", "w", "d">>, <<"s", "u">>, <<"s", "u", "d", "o">>, <<"d", "o", "a", "s">>,
    <<"c", "u", "r", "l">>, <<"w", "g", "e", "t">>, <<"n", "c">>, <<"n", "e", "t", "c", "a", "t">>,
    <<"t", "e", "l", "n", "e", "t">>, <<"s", "s", "h">>, <<"s", "c", "p">>, <<"s", "f", "t", "p">>,
    <<"r", "s", "y", "n", "c">>, <<"m", "o", "u", "n", "t">>, <<"u", "m", "o", "u", "n", "t">>, <<"m", "k", "s", "w", "a", "p">>,
    <<"s", "w", "a", "p", "o", "n">>, <<"s", "w", "a", "p", "o", "f", "f">>, <<"i", "p", "t", "a", "b", "l", "e", "s">>, <<"i", "p", "6", "t", "a", "b", "l", "e", "s">>,
    <<"n", "f", "t">>
}

\* validation.rs:93-97 (the same list in tract_llm.rs:117-121)
shell_injection_patterns == {
    <<Backtick>>, <<"$", "(">>, <<"$", "{">>, <<"$", "(", "(">>, <<">", ">">>, <<"<", "<", "<">>,
    <<"&", ">">>, <<"|", "&">>, <<"&", "&">>, <<"|", "|">>, <<"|">>, <<";">>,
    <<"\n">>, <<"\r">>, <<"\\">>, <<"'">>, <<"\"">>, <<"*">>,
    <<"?">>, <<"[">>, <<"]">>, <<"{">>, <<"}">>, <<"!">>,
    <<"~">>, <<"^">>, <<"<", "(">>, <<">", "(">>, <<".", ".", "/">>, <<"/", "d", "e", "v", "/">>,
    <<"/", "p", "r", "o", "c", "/">>, <<"/", "s", "y", "s", "/">>, <<">">>, <<"&">>
}

\* Mutant of DangerousStage: the patterns are looked for in the command as given.
DangerousStageAsGiven(command) ==
    \E p \in dangerous_patterns :
        \/ contains(command, p)
        \/ starts_with(trim(command), p)
        \/ contains(command, <<"/">> \o p)

\* validation.rs:102-109: a dangerous pattern in the lower-cased command, at the
\* start of the trimmed command, or after a "/" in the lower-cased command.
DangerousStage(command) ==
    \E p \in dangerous_patterns :
        \/ contains(to_lowercase(command), p)
        \/ starts_with(trim(command), p)
        \/ contains(to_lowercase(command), <<"/">> \o p)

\* Mutant of InjectionStage: only the first word is searched.
InjectionStageFirstWord(command) ==
    \E p \in shell_injection_patterns : contains(first_word_of(command), p)

\* validation.rs:111-117: a shell metacharacter in the command as given.
InjectionStage(command) ==
    \E p \in shell_injection_patterns : contains(command, p)

\* Mutant of WhitelistStage: the first word is compared as it is written.
WhitelistStageAsGiven(command) ==
    first_word_of(trim(command)) \notin allowed_commands

\* Mutant of WhitelistStage: "starts with an allowed command" taken literally.
WhitelistStagePrefix(command) ==
    ~\E c \in allowed_commands : starts_with(first_word_of(to_lowercase(command)), c)

\* validation.rs:119-123: the first word of the lower-cased command is not allowed.
WhitelistStage(command) ==
    first_word_of(to_lowercase(command)) \notin allowed_commands

\* Mutant of EncodingStage: an x or a 0 anywhere is taken for an encoded character.
EncodingStageNoBackslash(command) ==
    contains(command, <<"x">>) \/ contains(command, <<"0">>)

\* validation.rs:125-129: a backslash followed by x or by 0.
EncodingStage(command) ==
    contains(command, <<"\\", "x">>) \/ contains(command, <<"\\", "0">>)

\* validation.rs:131-134
IfsStage(command) == contains(to_uppercase(command), <<"I", "F", "S">>)

\* validation.rs:38-138: the stages in their order, each one returning false.
is_safe_command(command) ==
    IF DangerousStage(command) THEN FALSE
    ELSE IF InjectionStage(command) THEN FALSE
    ELSE IF WhitelistStage(command) THEN FALSE
    ELSE IF EncodingStage(command) THEN FALSE
    ELSE IF IfsStage(command) THEN FALSE
    ELSE TRUE

\* -------------------------------------- Core::is_safe_command (tract_llm.rs)

\* tract_llm.rs:65-69
tract_allowed_commands == {
    <<"l", "s">>, <<"p", "w", "d">>, <<"e", "c", "h", "o">>, <<"c", "a", "t">>,
    <<"h", "e", "a", "d">>, <<"t", "a", "i", "l">>, <<"g", "r", "e", "p">>, <<"f", "i", "n", "d">>,
    <<"w", "c">>, <<"d", "a", "t", "e">>, <<"w", "h", "o", "a", "m", "i">>, <<"h", "o", "s", "t", "n", "a", "m", "e">>,
    <<"u", "n", "a", "m", "e">>, <<"d", "f">>, <<"d", "u">>, <<"f", "r", "e", "e">>,
    <<"t", "o", "p">>, <<"p", "s">>, <<"w", "h", "i", "c", "h">>, <<"w", "h", "e", "r", "e", "i", "s">>,
    <<"f", "i", "l", "e">>, <<"s", "t", "a", "t">>, <<"t", "o", "u", "c", "h">>, <<"m", "k", "d", "i", "r">>
}

\* tract_llm.rs:143-147: the first word of the trimmed command, compared as it is.
TractWhitelistStage(command) ==
    first_word_of(trim(command)) \notin tract_allowed_commands

\* tract_llm.rs:63-162
Core_is_safe_command(command) ==
    IF DangerousStage(command) THEN FALSE
    ELSE IF InjectionStage(command) THEN FALSE
    ELSE IF TractWhitelistStage(command) THEN FALSE
    ELSE IF EncodingStage(command) THEN FALSE
    ELSE IF IfsStage(command) THEN FALSE
    ELSE TRUE

\* ------------------------------------------- Core::is_safe_command (lib.rs)

\* lib.rs:61
forbidden == {
    <<"r", "m", " ", "-", "r", "f">>, <<"s", "u", "d", "o">>, <<">">>,
    <<"|">>, <<"&">>, <<";">>
}

\* lib.rs:58-63
Lib_is_safe_command(command) == ~\E f \in forbidden : contains(command, f)

\* ------------------------------------------------------ Core (lib_core)

InSeq(seq, x) == \E i \in 1..Len(seq) : seq[i] = x
Min(a, b) == IF a <= b THEN a ELSE b

\* The prompt of the model's runs and the prompts generate_alternatives derives
\* from it (alternatives.rs:36-42); a call for count alternatives reaches the
\* first count - 1 of them.
BasePrompt == "list files"
\* Mutant of Variations: the first two variations change places.
VariationsSwapped(input) ==
    <<input \o " verbose", input \o " with details", input \o " concise",
      input \o " with all options", input \o " simple">>

Variations(input) ==
    <<input \o " with details", input \o " verbose", input \o " concise",
      input \o " with all options", input \o " simple">>
Prompts ==
    {BasePrompt} \cup {Variations(BasePrompt)[i] : i \in 1..Min(5, MaxAlternatives - 1)}

\* What the tokenizer may decode from the model's output, and the results of
\* generate_command: Ok(command) or the error of encode, run or decode.
Outputs == {<<"l", "s">>, <<"l", "s", " ", "-", "a">>, <<"r", "m", " ", "x">>}
Ok(v) == [ok |-> TRUE, val |-> v]
Err == [ok |-> FALSE, val |-> <<>>]
Models == [Prompts -> {Ok(o) : o \in Outputs} \cup {Err}]

\* The same for a call that may reach every variation.
AllPrompts == {BasePrompt} \cup {Variations(BasePrompt)[i] : i \in 1..5}
AllModels == [AllPrompts -> {Ok(o) : o \in Outputs} \cup {Err}]

\* Core::generate_command (tract_llm.rs:25-41): encode, run, decode; the same
\* prompt gives the same result on one loaded model.
generate_command(g, input) == g[input]


\* Mutant of accepted: a command is taken whenever it differs from the base.
accepted_unless_base(command, base_command, alternatives) == command # base_command

\* alternatives.rs:48: a variation's command is pushed when it differs from the
\* base command and is not in the list yet.
accepted(command, base_command, alternatives) ==
    command # base_command /\ ~InSeq(alternatives, command)

\* The for loop of generate_alternatives from its i-th iteration on
\* (alternatives.rs:44-58), with the list so far and the prompts given to
\* generate_command so far.
RECURSIVE variations_loop(_, _, _, _, _, _, _)
variations_loop(g, variations, count, base_command, alternatives, prompts, i) ==
    IF i > Min(count - 1, Len(variations))
    THEN [alternatives |-> alternatives, calls |-> prompts]
    ELSE LET r == generate_command(g, variations[i])
             called == Append(prompts, variations[i])
         IN IF ~r.ok THEN
                variations_loop(g, variations, count, base_command, alternatives, called, i + 1)
            ELSE LET pushed ==
                        IF accepted(r.val, base_command, alternatives)
                        THEN Append(alternatives, r.val)
                        ELSE alternatives
                 IN IF Len(pushed) >= count
                    THEN [alternatives |-> pushed, calls |-> called]
                    ELSE variations_loop(g, variations, count, base_command, pushed, called, i + 1)

\* Mutant of pad: the list is returned as the loop left it.
pad_nothing(alternatives, base_command, count) == alternatives

\* The padding loop (alternatives.rs:60-63).
pad(alternatives, base_command, count) ==
    alternatives \o [i \in 1..(count - Len(alternatives)) |-> base_command]

\* Mutant of first_push: the list starts empty.
first_push_nothing(base_command) == <<>>

\* alternatives.rs:29-33: the list with the base command pushed.
first_push(base_command) == <<base_command>>

Returned_alternatives(ok, val, prompts) ==[ok |-> ok, val |-> val, calls |-> prompts]

\* generate_alternatives from the result of the base prompt on
\* (alternatives.rs:25-66): the `?` of lines 26 and 32, then the loops.
alternatives_from(g, input, count, base) ==
    IF ~base.ok THEN Returned_alternatives(FALSE, <<>>, <<input>>)
    ELSE IF count = 1 THEN Returned_alternatives(TRUE, <<base.val>>, <<input>>)
    ELSE LET loop == variations_loop(g, Variations(input), count, base.val,
                                     first_push(base.val), <<input>>, 1)
         IN Returned_alternatives(TRUE, pad(loop.alternatives, base.val, count), loop.calls)

\* Mutant of generate_alternatives: a failed base generation is taken for an
\* empty command.
generate_alternatives_lenient(g, input, count) ==
    IF count = 0 THEN Returned_alternatives(TRUE, <<>>, <<>>)
    ELSE alternatives_from(g, input, count,
                           IF generate_command(g, input).ok
                           THEN generate_command(g, input) ELSE Ok(<<>>))

\* Core::generate_alternatives (alternatives.rs:20-66): ok and val are the
\* Result, calls the prompts it gave to generate_command, in their order.
generate_alternatives(g, input, count) ==
    IF count = 0 THEN Returned_alternatives(TRUE, <<>>, <<>>)
    ELSE alternatives_from(g, input, count, generate_command(g, input))

\* Core::explain_command: the pipeline run on "Explain what this command does: "
\* and the command; ex is what the model answers for each command.
ExplainResults == {[ok |-> TRUE, val |-> "explanation"], [ok |-> FALSE, val |-> ""]}
ExplainModels == [Outputs -> ExplainResults]
NoExplanation == [o \in Outputs |-> [ok |-> FALSE, val |-> ""]]
explain_command(ex, command) == ex[command]

NoRet == [op |-> "none", ok |-> FALSE, text |-> ""]
Line(kind, index, command, note) ==
    [kind |-> kind, index |-> index, command |-> command, note |-> note]
Idle == ret = NoRet

\* How `sh -c command` may end: it cannot be spawned, or it exits with or
\* without success.
Statuses == {"spawn failed", "success", "failure"}

\* Mutant of execute_command: the command goes to the shell whatever the
\* validator answered.
execute_command_unchecked(op, safe, command, generated, status) ==
    /\ shell' = IF status = "spawn failed" THEN <<>>
                ELSE <<[command |-> command, generated |-> generated]>>
    /\ ret' = [op |-> op, ok |-> status = "success", text |-> status]

\* The body of execute_command once the validator has answered
\* (tract_llm.rs:43-59, lib.rs:40-56).
execute_command(op, safe, command, generated, status) ==
    IF safe
    THEN /\ shell' = IF status = "spawn failed" THEN <<>>
                     ELSE <<[command |-> command, generated |-> generated]>>
         /\ ret' = [op |-> op, ok |-> status = "success", text |-> status]
    ELSE /\ shell' = <<>>
         /\ ret' = [op |-> op, ok |-> FALSE, text |-> "Command is not allowed."]

\* Core::execute_command of tract_llm.rs, called with a command of the caller's.
CoreExecuteCommand(command, status) ==
    /\ Idle
    /\ execute_command("execute_command", Core_is_safe_command(command), command, FALSE, status)
    /\ model_output' = <<>>
    /\ UNCHANGED <<gen, stdout, stderr, cmd, verdict, cacheVars, histVars, altVars, chatVars, bridgeVars>>

\* Core::run of tract_llm.rs (164-169): generate, then execute_command.
CoreRun(input, status) ==
    /\ Idle
    /\ LET r == generate_command(gen, input)
       IN IF r.ok
          THEN execute_command("run", Core_is_safe_command(r.val), r.val, TRUE, status)
          ELSE /\ shell' = <<>>
               /\ ret' = [op |-> "run", ok |-> FALSE, text |-> "Failed to generate command"]
    /\ model_output' = IF generate_command(gen, input).ok
                    THEN <<generate_command(gen, input).val>> ELSE <<>>
    /\ UNCHANGED <<gen, stdout, stderr, cmd, verdict, cacheVars, histVars, altVars, chatVars, bridgeVars>>

\* Core::execute_command of lib.rs (40-56).
LibExecuteCommand(command, status) ==
    /\ Idle
    /\ execute_command("execute_command", Lib_is_safe_command(command), command, FALSE, status)
    /\ model_output' = <<>>
    /\ UNCHANGED <<gen, stdout, stderr, cmd, verdict, cacheVars, histVars, altVars, chatVars, bridgeVars>>

\* Core::run of lib.rs (65-70).
LibRun(input, status) ==
    /\ Idle
    /\ LET r == generate_command(gen, input)
       IN IF r.ok
          THEN execute_command("run", Lib_is_safe_command(r.val), r.val, TRUE, status)
          ELSE /\ shell' = <<>>
               /\ ret' = [op |-> "run", ok |-> FALSE, text |-> "Failed to generate command"]
    /\ model_output' = IF generate_command(gen, input).ok
                    THEN <<generate_command(gen, input).val>> ELSE <<>>
    /\ UNCHANGED <<gen, stdout, stderr, cmd, verdict, cacheVars, histVars, altVars, chatVars, bridgeVars>>

\* No call of generate_alternatives yet.
NoAlts ==
    [done |-> FALSE, input |-> "", count |-> 0, ok |-> FALSE, val |-> <<>>, calls |-> <<>>]
AltInit == alts = NoAlts

\* One call of Core::generate_alternatives on the loaded model.
GenerateAlternatives(input, count) ==
    /\ ~alts.done
    /\ LET r == generate_alternatives(gen, input, count)
       IN alts' = [done |-> TRUE, input |-> input, count |-> count,
                   ok |-> r.ok, val |-> r.val, calls |-> r.calls]
    /\ UNCHANGED <<cliVars, valVars, cacheVars, histVars, chatVars, bridgeVars>>

\* ------------------------------------------------- the `core` subcommand

\* validate_input (main.rs:151-176) for the prompts of the model: a blank prompt
\* or one of more than max_length characters is refused.
MAX_CORE_PROMPT_LENGTH == 1000
BlankPrompts == {"", "   "}
validate_input(text, max_length) == text \notin BlankPrompts /\ Len(text) <= max_length

\* init_logging (main.rs:179-193): the filter is warn, info or debug by the
\* flags, unless RUST_LOG sets another one; the lines of error! and warn! reach
\* stderr when the filter lets their level through, those of eprintln! always.
\* The lines of info! and debug! are left out of stderr.
\* The filters info and debug let through what warn does.
LogFilters == {"off", "error", "warn"}
enabled(kind, filter) ==
    CASE kind = "error" -> filter \in {"error", "warn"}
      [] kind = "warn" -> filter = "warn"
      [] OTHER -> TRUE

logged(lines, filter) == SelectSeq(lines, LAMBDA l : enabled(l.kind, filter))

\* Mutant of alternative_lines: every alternative is printed, checked or not.
alternative_lines_unchecked(commands, i, explain, ex) ==
    [j \in 1..(Len(commands) - i + 1) |-> Line("alternative", i + j - 1, commands[i + j - 1], "")]

\* What the alternatives branch prints for commands[i..] (main.rs:450-461):
\* println! for a command that passes, with its explanation when asked for and
\* obtained.
RECURSIVE alternative_lines(_, _, _, _)
alternative_lines(commands, i, explain, ex) ==
    IF i > Len(commands) THEN <<>>
    ELSE (IF Core_is_safe_command(commands[i])
          THEN <<Line("alternative", i, commands[i], "")>>
               \o (IF explain /\ explain_command(ex, commands[i]).ok
                   THEN <<Line("explanation", i, <<>>, explain_command(ex, commands[i]).val)>>
                   ELSE <<>>)
          ELSE <<>>)
         \o alternative_lines(commands, i + 1, explain, ex)

\* What the alternatives branch logs for commands[i..]: warn! for a command that
\* fails the safety check (main.rs:458-460).
RECURSIVE alternative_warnings(_, _)
alternative_warnings(commands, i) ==
    IF i > Len(commands) THEN <<>>
    ELSE (IF Core_is_safe_command(commands[i]) THEN <<>>
          ELSE <<Line("warn", i, commands[i], "Alternative failed safety check")>>)
         \o alternative_warnings(commands, i + 1)

\* The single-command branch (main.rs:472-518; the same steps in the handler
\* that setup_bridge registers, main.rs:277-308, where explain is false).
single_command(op, prompt, explain, ex, filter) ==
    LET r == generate_command(gen, prompt)
    IN /\ model_output' = IF r.ok THEN <<r.val>> ELSE <<>>
       /\ IF ~r.ok THEN
               /\ stdout' = <<>>
               /\ stderr' = logged(<<Line("error", 0, <<>>, "Inference failed"),
                                     Line("eprintln", 0, <<>>, "Error")>>, filter)
               /\ ret' = [op |-> op, ok |-> FALSE, text |-> "inference error"]
          ELSE IF Core_is_safe_command(r.val) THEN
               /\ stdout' = <<Line("command", 0, r.val, "")>>
                            \o (IF explain /\ explain_command(ex, r.val).ok
                                THEN <<Line("explanation", 0, <<>>, explain_command(ex, r.val).val)>>
                                ELSE <<>>)
               /\ stderr' = IF explain /\ ~explain_command(ex, r.val).ok
                            THEN logged(<<Line("warn", 0, <<>>, "Failed to generate explanation")>>,
                                        filter)
                            ELSE <<>>
               /\ ret' = [op |-> op, ok |-> TRUE, text |-> ""]
          ELSE
               /\ stdout' = <<>>
               /\ stderr' = logged(<<Line("error", 0, <<>>, "Generated command failed safety validation"),
                                     Line("eprintln", 0, <<>>, "Safety Error: Generated command is not safe to execute"),
                                     Line("eprintln", 0, r.val, "Generated: ")>>, filter)
               /\ ret' = [op |-> op, ok |-> FALSE,
                          text |-> "Generated command failed safety validation"]

\* The steps before the model is used: validate_input, Config::load and
\* validate, get_or_load_model (main.rs:382-442). How they end is an input
\* here; get_or_load_model itself is what Spec is about.
Setup == {"invalid input", "config error", "load error", "ready"}
setup_failed(op, setup, filter) ==
    /\ model_output' = <<>>
    /\ stdout' = <<>>
    /\ stderr' = logged(<<Line("error", 0, <<>>, setup)>>
                        \o (IF setup = "load error" THEN <<>>
                            ELSE <<Line("eprintln", 0, <<>>, setup)>>), filter)
    /\ ret' = [op |-> op, ok |-> FALSE, text |-> setup]

\* main, Commands::Core (main.rs:377-520).
MainCore(prompt, alternatives, explain, setup, ex, filter) ==
    /\ Idle
    /\ setup = "invalid input" <=> ~validate_input(prompt, MAX_CORE_PROMPT_LENGTH)
    /\ IF setup # "ready" THEN setup_failed("core", setup, filter)
       ELSE IF alternatives > 1 THEN
            LET r == generate_alternatives(gen, prompt, alternatives)
            IN /\ model_output' = r.val
               /\ IF r.ok
                  THEN /\ stdout' = <<Line("header", Len(r.val), <<>>, "Generated alternatives:")>>
                                    \o alternative_lines(r.val, 1, explain, ex)
                       /\ stderr' = logged(alternative_warnings(r.val, 1), filter)
                       /\ ret' = [op |-> "core", ok |-> TRUE, text |-> ""]
                  ELSE /\ stdout' = <<>>
                       /\ stderr' = logged(<<Line("error", 0, <<>>, "Alternative generation failed"),
                                             Line("eprintln", 0, <<>>, "Error")>>, filter)
                       /\ ret' = [op |-> "core", ok |-> FALSE, text |-> "inference error"]
       ELSE single_command("core", prompt, explain, ex, filter)
    /\ UNCHANGED <<gen, shell, cmd, verdict, cacheVars, histVars, altVars, chatVars, bridgeVars>>

\* The handler setup_bridge registers for Request::Core (main.rs:229-310).
BridgeCoreHandler(prompt, setup, filter) ==
    /\ Idle
    /\ setup # "invalid input"
    /\ IF setup # "ready" THEN setup_failed("handler", setup, filter)
       ELSE single_command("handler", prompt, FALSE, NoExplanation, filter)
    /\ UNCHANGED <<gen, shell, cmd, verdict, cacheVars, histVars, altVars, chatVars, bridgeVars>>

\* ------------------------------------------ ConversationHistory (lib_chat)

\* Role (history.rs:4-12) and the contents of the messages: content of every
\* length up to MaxBytes; String::len is the number of bytes.
Roles == {"system", "user", "assistant"}
RECURSIVE Content(_)
Content(n) == IF n = 0 THEN "" ELSE "x" \o Content(n - 1)
Messages == [role : Roles, content : {Content(n) : n \in 0..MaxBytes}]

NoMessage == [role |-> "", content |-> ""]
NoLast == [op |-> "none", ok |-> FALSE, message |-> NoMessage, before |-> <<>>, n |-> 0]

\* ConversationHistory::new_with_limits (history.rs:57-68).
new_with_limits(m, t, p) ==
    /\ messages = <<>>
    /\ max_messages = m
    /\ max_bytes_total = t
    /\ max_bytes_per_message = p
    /\ kept_since_clear = <<>>
    /\ last = NoLast

\* A history that is not used.
ChatInit == new_with_limits(0, 0, 0)

\* ConversationHistory::total_bytes (history.rs:71-76).
RECURSIVE total_bytes(_)
total_bytes(ms) == IF ms = <<>> THEN 0 ELSE Len(Head(ms).content) + total_bytes(Tail(ms))

\* Mutant of too_large: a message of exactly the limit is refused too.
too_large_or_equal(message_bytes, limit) == message_bytes >= limit

\* history.rs:82: the size check of a single message.
too_large(message_bytes, limit) == message_bytes > limit

\* Mutant of drain_to_count: the oldest max_messages messages are kept.
drain_to_oldest(ms, m) == IF Len(ms) > m THEN SubSeq(ms, 1, m) ELSE ms

\* history.rs:92-95: only the max_messages most recent messages are kept.
drain_to_count(ms, m) ==
    IF Len(ms) > m THEN SubSeq(ms, Len(ms) - m + 1, Len(ms)) ELSE ms

\* history.rs:98-101: the oldest message is removed while the total is over the
\* limit and more than one message is left.
RECURSIVE remove_oldest(_, _)
remove_oldest(ms, t) ==
    IF total_bytes(ms) > t /\ Len(ms) > 1 THEN remove_oldest(Tail(ms), t) ELSE ms

\* ConversationHistory::add_message (history.rs:79-104).
add_message(message) ==
    /\ last.n < MaxOps
    /\ IF too_large(Len(message.content), max_bytes_per_message)
       THEN /\ last' = [op |-> "add_message", ok |-> FALSE, message |-> message,
                        before |-> messages, n |-> last.n + 1]
            /\ UNCHANGED <<messages, kept_since_clear>>
       ELSE /\ messages' = remove_oldest(drain_to_count(Append(messages, message),
                                                        max_messages),
                                         max_bytes_total)
            /\ kept_since_clear' = Append(kept_since_clear, message)
            /\ last' = [op |-> "add_message", ok |-> TRUE, message |-> message,
                        before |-> messages, n |-> last.n + 1]
    /\ UNCHANGED <<max_messages, max_bytes_total, max_bytes_per_message,
                   cacheVars, histVars, cliVars, valVars, altVars, bridgeVars>>

\* ConversationHistory::clear (history.rs:122-124).
clear ==
    /\ last.n < MaxOps
    /\ messages' = <<>>
    /\ kept_since_clear' = <<>>
    /\ last' = [op |-> "clear", ok |-> TRUE, message |-> NoMessage,
                before |-> messages, n |-> last.n + 1]
    /\ UNCHANGED <<max_messages, max_bytes_total, max_bytes_per_message,
                   cacheVars, histVars, cliVars, valVars, altVars, bridgeVars>>

\* ------------------------------------------------------ Bridge (lib_bridge)

\* Request (lib.rs:3-8).
Requests == {"Chat", "Core", "Translate"}

\* Handlers, each a function of the input: one returns Ok, one an error of its
\* own, one an error that quotes the input, one the text of route's own error.
Handlers == {"accept", "refuse", "quote", "mimic"}
NoHandler == "none"
RouteInputs == {"", "hello"}
HandlerResult(h, input) ==
    CASE h = "accept" -> [ok |-> TRUE, err |-> ""]
      [] h = "refuse" -> [ok |-> FALSE, err |-> "refused"]
      [] h = "quote" -> [ok |-> FALSE, err |-> "bad input: " \o input]
      [] OTHER -> [ok |-> FALSE, err |-> "No handler registered for request: Core"]

NoRouted ==
    [op |-> "none", request |-> "", input |-> "", result |-> [ok |-> FALSE, err |-> ""],
     invoked |-> <<>>, n |-> 0]

\* Bridge::new (lib.rs:18-22).
BridgeInit ==
    /\ router = [r \in Requests |-> NoHandler]
    /\ registered = [r \in Requests |-> <<>>]
    /\ routed = NoRouted

\* Mutant of insert: a request type keeps the handler it has.
insert_if_absent(map, request, handler) ==
    IF map[request] = NoHandler THEN [map EXCEPT ![request] = handler] ELSE map

\* HashMap::insert (lib.rs:26).
insert(map, request, handler) == [map EXCEPT ![request] = handler]

\* Bridge::register (lib.rs:25-27).
register(request, handler) ==
    /\ routed.n < MaxBridgeOps
    /\ router' = insert(router, request, handler)
    /\ registered' = [registered EXCEPT ![request] = Append(@, handler)]
    /\ routed' = [op |-> "register", request |-> request, input |-> "",
                  result |-> [ok |-> TRUE, err |-> ""], invoked |-> <<>>,
                  n |-> routed.n + 1]
    /\ UNCHANGED <<cacheVars, histVars, cliVars, valVars, altVars, chatVars>>

\* Bridge::route (lib.rs:30-36).
route(request, input) ==
    /\ routed.n < MaxBridgeOps
    /\ routed' =
         IF router[request] # NoHandler
         THEN [op |-> "route", request |-> request, input |-> input,
               result |-> HandlerResult(router[request], input),
               invoked |-> <<[handler |-> router[request], input |-> input]>>,
               n |-> routed.n + 1]
         ELSE [op |-> "route", request |-> request, input |-> input,
               result |-> [ok |-> FALSE,
                           err |-> "No handler registered for request: " \o request],
               invoked |-> <<>>, n |-> routed.n + 1]
    /\ UNCHANGED <<router, registered, cacheVars, histVars, cliVars, valVars, altVars,
                   chatVars>>

\* ------------------------------------------------- inputs of the validators

\* The pieces the checked commands are put together from: allowed, unknown and
\* dangerous words in several spellings, arguments, whitespace, a metacharacter.
Pieces == {
    <<"l", "s">>, <<"L", "S">>, <<"L", "s">>, <<"p", "w", "d">>, <<"c", "a", "t">>,
    <<"t", "o", "u", "c", "h">>, <<"p", "y", "t", "h", "o", "n">>, <<"x">>,
    <<"r", "m">>, <<"-", "l", "a">>, <<"f", ".", "t", "x", "t">>,
    <<" ">>, <<"\t">>, <<"\n">>, <<";">>
}

\* Every concatenation of at most n pieces.
RECURSIVE Concats(_)
Concats(n) ==
    IF n = 0 THEN {<<>>}
    ELSE LET shorter == Concats(n - 1)
         IN shorter \cup {s \o p : s \in shorter, p \in Pieces}
\* A word with its first letter, or its last letter, in upper case.
Capitalized(w) == to_uppercase(SubSeq(w, 1, 1)) \o SubSeq(w, 2, Len(w))
LastUpper(w) == SubSeq(w, 1, Len(w) - 1) \o to_uppercase(SubSeq(w, Len(w), Len(w)))
Spellings(w) == {w, to_uppercase(w), Capitalized(w), LastUpper(w)}

\* Allowed commands with every shell metacharacter after them.
Injected ==
    {h \o sep \o p \o t :
        h \in {<<"l", "s">>, <<"c", "a", "t">>}, sep \in {<<>>, <<" ">>},
        p \in shell_injection_patterns, t \in {<<>>, <<"f", ".", "t", "x", "t">>}}

\* Every dangerous pattern, in several spellings, at the start of a command,
\* as an argument of an allowed command and in the middle of a word.
Denied ==
    {h \o w \o t :
        h \in {<<>>, <<"l", "s", " ">>, <<"x">>},
        w \in UNION {Spellings(p) : p \in dangerous_patterns},
        t \in {<<>>, <<" ", "f", ".", "t", "x", "t">>, <<"x">>}}

\* Allowed commands with the field separator's name or an encoded character.
Manipulated ==
    {h \o <<" ">> \o w \o t :
        h \in {<<"l", "s">>, <<"L", "S">>, <<"c", "a", "t">>},
        w \in Spellings(<<"i", "f", "s">>) \cup {<<"\\", "x", "2", "f">>, <<"\\", "0", "5", "7">>},
        t \in {<<>>, <<".", "t", "x", "t">>}}

\* Every dangerous pattern, in several spellings, as the last part of a path.
Slashed ==
    {<<"l", "s", " ">> \o d \o <<"/">> \o w :
        d \in {<<>>, <<"/", "b", "i", "n">>},
        w \in UNION {Spellings(p) : p \in dangerous_patterns}}

Inputs == Concats(MaxPieces) \cup Injected \cup Denied \cup Manipulated \cup Slashed

NoVerdict == [done |-> FALSE, validation |-> FALSE, tract |-> FALSE, lib |-> FALSE]

\* The three validators are applied to cmd.
Validate ==
    /\ ~verdict.done
    /\ verdict' = [done |-> TRUE,
                   validation |-> is_safe_command(cmd),
                   tract |-> Core_is_safe_command(cmd),
                   lib |-> Lib_is_safe_command(cmd)]
    /\ UNCHANGED <<cmd, cacheVars, histVars, cliVars, altVars, chatVars, bridgeVars>>


\* ------------------------------------------------------- Arc<Core> (std::sync::Arc)

\* Core::new(model_path, tokenizer_path) succeeded and Arc::new wraps it: main.rs:77-83.
ArcNew(h, k) ==
    Append(h, [model_path |-> k.model_path, tokenizer_path |-> k.tokenizer_path,
               strong |-> 1, live |-> TRUE])

\* Mutant of ArcClone: the handle is shared without counting the new owner.
ArcCloneNoCount(h, a) == h

\* Arc::clone: main.rs:55, 67, 84.
ArcClone(h, a) == [h EXCEPT ![a].strong = @ + 1]

\* Dropping one Arc; the Core is released when the last one goes.
ArcDrop(h, a) ==
    IF a = None THEN h
    ELSE [h EXCEPT ![a].strong = @ - 1, ![a].live = (h[a].strong > 1)]

\* ------------------------------------------------------------ ModelCache

EmptyCache == [core |-> None, model_path |-> "", tokenizer_path |-> ""]

\* Mutant of CacheHit: the tokenizer path is left out of the comparison.
CacheHitModelOnly(c, k) ==
    /\ c.core # None
    /\ c.model_path = k.model_path

\* Mutant of CacheHit: whatever is cached is a hit.
CacheHitAnyKey(c, k) == c.core # None

\* `if let Some(ref core) = cache.core { if cache.model_path == model_path &&
\*  cache.tokenizer_path == tokenizer_path {...` (main.rs:52-53 and 64-65).
CacheHit(c, k) ==
    /\ c.core # None
    /\ c.model_path = k.model_path
    /\ c.tokenizer_path = k.tokenizer_path

\* The key of the cached entry, when there is one.
CachedKey(c) == [model_path |-> c.model_path, tokenizer_path |-> c.tokenizer_path]

InCall(t) == pc[t] \in {"read_wait", "fast", "write_wait", "dcheck", "loading"}

\* A thread enters get_or_load_model(model_path, tokenizer_path) and reaches
\* MODEL_CACHE.read() (main.rs:45-51).
Call(t, k) ==
    /\ pc[t] = "idle"
    /\ calls < MaxCalls
    /\ pc' = [pc EXCEPT ![t] = "read_wait"]
    /\ req' = [req EXCEPT ![t] = k]
    /\ calls' = calls + 1
    /\ requested' = requested \cup {k}
    /\ quiet' = [u \in Threads |->
                    IF u # t /\ result[u].key # k THEN FALSE ELSE quiet[u]]
    /\ contended' = [contended EXCEPT ![t] =
                        /\ CacheHit(cache, k)
                        /\ \E u \in Threads : pc[u] = "loading" /\ req[u] # k]
    /\ UNCHANGED <<cache, readers, writer, heap, held, result, loadsOk, loadsErr, evicted>>
    /\ UNCHANGED <<cliVars, valVars, altVars, chatVars, bridgeVars>>

\* Mutant of AcquireRead: a reader gets in while a writer holds the lock.
AcquireReadNoExclusion(t) ==
    /\ pc[t] = "read_wait"
    /\ readers' = readers \cup {t}
    /\ pc' = [pc EXCEPT ![t] = "fast"]
    /\ UNCHANGED <<cache, writer, heap, req, held, result, histVars>>
    /\ UNCHANGED <<cliVars, valVars, altVars, chatVars, bridgeVars>>

\* MODEL_CACHE.read() returns the read guard: no writer holds the lock (main.rs:51).
AcquireRead(t) ==
    /\ pc[t] = "read_wait"
    /\ writer = None
    /\ readers' = readers \cup {t}
    /\ pc' = [pc EXCEPT ![t] = "fast"]
    /\ UNCHANGED <<cache, writer, heap, req, held, result, histVars>>
    /\ UNCHANGED <<cliVars, valVars, altVars, chatVars, bridgeVars>>

\* What a return of Ok(handle) records for the caller.
Returned(t, how, h) ==
    /\ held' = [held EXCEPT ![t] = h]
    /\ result' = [result EXCEPT ![t] = [via |-> how, core |-> h, key |-> req[t]]]
    /\ pc' = [pc EXCEPT ![t] = "ret"]
    /\ quiet' = [quiet EXCEPT ![t] =
                    h # None /\ \A u \in Threads \ {t} : InCall(u) => req[u] = req[t]]

\* Mutant of FastPath: without the inner block of main.rs:50-58 the read guard
\* is still alive when the miss goes on to MODEL_CACHE.write().
FastPathKeepGuard(t) ==
    /\ pc[t] = "fast"
    /\ IF CacheHit(cache, req[t])
       THEN /\ heap' = ArcClone(heap, cache.core)
            /\ Returned(t, "fast", cache.core)
            /\ readers' = readers \ {t}
       ELSE /\ pc' = [pc EXCEPT ![t] = "write_wait"]
            /\ UNCHANGED <<heap, held, result, quiet, readers>>
    /\ UNCHANGED <<cache, writer, req, calls, requested, loadsOk, loadsErr, evicted, contended>>
    /\ UNCHANGED <<cliVars, valVars, altVars, chatVars, bridgeVars>>

\* Mutant of FastPath: there is no fast path, every caller goes on to
\* MODEL_CACHE.write().
FastPathAlwaysMiss(t) ==
    /\ pc[t] = "fast"
    /\ readers' = readers \ {t}
    /\ pc' = [pc EXCEPT ![t] = "write_wait"]
    /\ UNCHANGED <<heap, held, result, quiet>>
    /\ UNCHANGED <<cache, writer, req, calls, requested, loadsOk, loadsErr, evicted, contended>>
    /\ UNCHANGED <<cliVars, valVars, altVars, chatVars, bridgeVars>>

\* Fast path under the read guard (main.rs:50-58): a hit returns a clone, a miss
\* drops the guard and goes on to MODEL_CACHE.write().
FastPath(t) ==
    /\ pc[t] = "fast"
    /\ readers' = readers \ {t}
    /\ IF CacheHit(cache, req[t])
       THEN /\ heap' = ArcClone(heap, cache.core)
            /\ Returned(t, "fast", cache.core)
       ELSE /\ pc' = [pc EXCEPT ![t] = "write_wait"]
            /\ UNCHANGED <<heap, held, result, quiet>>
    /\ UNCHANGED <<cache, writer, req, calls, requested, loadsOk, loadsErr, evicted, contended>>
    /\ UNCHANGED <<cliVars, valVars, altVars, chatVars, bridgeVars>>

\* MODEL_CACHE.write() returns the write guard: nobody holds the lock (main.rs:61).
AcquireWrite(t) ==
    /\ pc[t] = "write_wait"
    /\ writer = None
    /\ readers = {}
    /\ writer' = t
    /\ pc' = [pc EXCEPT ![t] = "dcheck"]
    /\ UNCHANGED <<cache, readers, heap, req, held, result, histVars>>
    /\ UNCHANGED <<cliVars, valVars, altVars, chatVars, bridgeVars>>

\* Mutant of DoubleCheck: the slot is not looked at again under the write guard.
DoubleCheckNoRecheck(t) ==
    /\ pc[t] = "dcheck"
    /\ pc' = [pc EXCEPT ![t] = "loading"]
    /\ UNCHANGED <<cache, readers, writer, heap, req, held, result, histVars>>
    /\ UNCHANGED <<cliVars, valVars, altVars, chatVars, bridgeVars>>

\* Double-check under the write guard (main.rs:63-69).
DoubleCheck(t) ==
    /\ pc[t] = "dcheck"
    /\ IF CacheHit(cache, req[t])
       THEN /\ heap' = ArcClone(heap, cache.core)
            /\ Returned(t, "double", cache.core)
            /\ writer' = None
       ELSE /\ pc' = [pc EXCEPT ![t] = "loading"]
            /\ UNCHANGED <<heap, held, result, quiet, writer>>
    /\ UNCHANGED <<cache, readers, req, calls, requested, loadsOk, loadsErr, evicted, contended>>
    /\ UNCHANGED <<cliVars, valVars, altVars, chatVars, bridgeVars>>

\* Mutant of LoadOk: the handle is stored but the two paths of the slot are not.
LoadOkKeepKey(t) ==
    /\ pc[t] = "loading"
    /\ LET h == Len(heap) + 1
       IN /\ heap' = ArcDrop(ArcClone(ArcNew(heap, req[t]), h), cache.core)
          /\ cache' = [cache EXCEPT !.core = h]
          /\ Returned(t, "loaded", h)
    /\ writer' = None
    /\ loadsOk' = [loadsOk EXCEPT ![req[t]] = @ + 1]
    /\ evicted' = IF cache.core = None THEN evicted
                  ELSE [evicted EXCEPT ![CachedKey(cache)] = @ + 1]
    /\ UNCHANGED <<readers, req, calls, requested, loadsErr, contended>>
    /\ UNCHANGED <<cliVars, valVars, altVars, chatVars, bridgeVars>>

\* Mutant of LoadOk: the new handle is returned but never put in the slot.
LoadOkNoStore(t) ==
    /\ pc[t] = "loading"
    /\ heap' = ArcNew(heap, req[t])
    /\ Returned(t, "loaded", Len(heap) + 1)
    /\ writer' = None
    /\ loadsOk' = [loadsOk EXCEPT ![req[t]] = @ + 1]
    /\ UNCHANGED <<cache, readers, req, calls, requested, loadsErr, evicted, contended>>
    /\ UNCHANGED <<cliVars, valVars, altVars, chatVars, bridgeVars>>

\* Core::new returned Ok: the slot takes a clone of the new Arc and the key, the
\* previous Option<Arc<Core>> of the slot is dropped, the guard is dropped and
\* the new Arc is returned (main.rs:77-88).
LoadOk(t) ==
    /\ pc[t] = "loading"
    /\ LET h == Len(heap) + 1
       IN /\ heap' = ArcDrop(ArcClone(ArcNew(heap, req[t]), h), cache.core)
          /\ cache' = [core |-> h, model_path |-> req[t].model_path,
                       tokenizer_path |-> req[t].tokenizer_path]
          /\ Returned(t, "loaded", h)
    /\ writer' = None
    /\ loadsOk' = [loadsOk EXCEPT ![req[t]] = @ + 1]
    /\ evicted' = IF cache.core = None THEN evicted
                  ELSE [evicted EXCEPT ![CachedKey(cache)] = @ + 1]
    /\ UNCHANGED <<readers, req, calls, requested, loadsErr, contended>>
    /\ UNCHANGED <<cliVars, valVars, altVars, chatVars, bridgeVars>>

\* Mutant of LoadFail: a failed load empties the slot.
LoadFailClearsSlot(t) ==
    /\ pc[t] = "loading"
    /\ Returned(t, "failed", None)
    /\ writer' = None
    /\ cache' = EmptyCache
    /\ heap' = ArcDrop(heap, cache.core)
    /\ loadsErr' = [loadsErr EXCEPT ![req[t]] = @ + 1]
    /\ UNCHANGED <<readers, req, calls, requested, loadsOk, evicted, contended>>
    /\ UNCHANGED <<cliVars, valVars, altVars, chatVars, bridgeVars>>

\* Core::new returned Err: `?` returns the formatted error and drops the guard;
\* the slot is not touched (main.rs:77-78).
LoadFail(t) ==
    /\ pc[t] = "loading"
    /\ Returned(t, "failed", None)
    /\ writer' = None
    /\ loadsErr' = [loadsErr EXCEPT ![req[t]] = @ + 1]
    /\ UNCHANGED <<cache, readers, heap, req, calls, requested, loadsOk, evicted, contended>>
    /\ UNCHANGED <<cliVars, valVars, altVars, chatVars, bridgeVars>>

\* The caller is done with what it got: its Arc<Core> goes out of scope
\* (the end of the handler, main.rs:442-520).
Release(t) ==
    /\ pc[t] = "ret"
    /\ heap' = ArcDrop(heap, held[t])
    /\ held' = [held EXCEPT ![t] = None]
    /\ pc' = [pc EXCEPT ![t] = "idle"]
    /\ UNCHANGED <<cache, readers, writer, req, result, histVars>>
    /\ UNCHANGED <<cliVars, valVars, altVars, chatVars, bridgeVars>>

NoResult == [via |-> "none", core |-> None, key |-> CachedKey(EmptyCache)]

\* lazy_static! MODEL_CACHE (main.rs:25-31) and threads that have not called yet.
CacheInit ==
    /\ cache = EmptyCache
    /\ readers = {}
    /\ writer = None
    /\ heap = <<>>
    /\ pc = [t \in Threads |-> "idle"]
    /\ req = [t \in Threads |-> CachedKey(EmptyCache)]
    /\ held = [t \in Threads |-> None]
    /\ result = [t \in Threads |-> NoResult]
    /\ calls = 0
    /\ requested = {}
    /\ loadsOk = [k \in Keys |-> 0]
    /\ loadsErr = [k \in Keys |-> 0]
    /\ evicted = [k \in Keys |-> 0]
    /\ quiet = [t \in Threads |-> FALSE]
    /\ contended = [t \in Threads |-> FALSE]

\* No operation of Core or of the CLI has run.
CliInit ==
    /\ stdout = <<>>
    /\ stderr = <<>>
    /\ shell = <<>>
    /\ ret = NoRet
    /\ model_output = <<>>

\* The threads calling get_or_load_model.
Init ==
    /\ CacheInit
    /\ CliInit
    /\ AltInit
    /\ BridgeInit
    /\ ChatInit
    /\ gen = [p \in Prompts |-> Err]
    /\ cmd = <<>>
    /\ verdict = NoVerdict

Next ==
    \E t \in Threads :
        \/ \E k \in Keys : Call(t, k)
        \/ AcquireRead(t)
        \/ FastPath(t)
        \/ AcquireWrite(t)
        \/ DoubleCheck(t)
        \/ LoadOk(t)
        \/ LoadFail(t)
        \/ Release(t)

Spec == Init /\ [][Next]_vars

\* One operation of Core, or one run of the `core` subcommand, on a loaded model.
InitCli ==
    /\ CacheInit
    /\ CliInit
    /\ AltInit
    /\ BridgeInit
    /\ ChatInit
    /\ gen \in Models
    /\ cmd = <<>>
    /\ verdict = NoVerdict

NextCli ==
    \/ \E c \in Outputs, st \in Statuses : CoreExecuteCommand(c, st)
    \/ \E st \in Statuses : CoreRun(BasePrompt, st)
    \/ \E c \in Outputs, st \in Statuses : LibExecuteCommand(c, st)
    \/ \E st \in Statuses : LibRun(BasePrompt, st)
    \/ \E p \in {BasePrompt} \cup BlankPrompts, n \in 0..MaxAlternatives,
          e \in BOOLEAN, su \in Setup :
            \E ex \in IF e THEN ExplainModels ELSE {NoExplanation} :
                \E f \in LogFilters : MainCore(p, n, e, su, ex, f)
    \/ \E p \in Prompts, su \in Setup, f \in LogFilters : BridgeCoreHandler(p, su, f)

SpecCli == InitCli /\ [][NextCli]_vars

\* One call of generate_alternatives on a loaded model.
InitAlt ==
    /\ CacheInit
    /\ CliInit
    /\ AltInit
    /\ BridgeInit
    /\ ChatInit
    /\ gen \in AllModels
    /\ cmd = <<>>
    /\ verdict = NoVerdict

NextAlt == \E n \in 0..MaxCount : GenerateAlternatives(BasePrompt, n)

SpecAlt == InitAlt /\ [][NextAlt]_vars

\* A ConversationHistory with any limits, and the calls made on it.
InitChat ==
    /\ CacheInit
    /\ CliInit
    /\ AltInit
    /\ BridgeInit
    /\ \E m \in 0..MaxLimit, t \in 0..MaxLimit, p \in 0..MaxLimit : new_with_limits(m, t, p)
    /\ gen = [p \in Prompts |-> Err]
    /\ cmd = <<>>
    /\ verdict = NoVerdict

NextChat ==
    \/ \E message \in Messages : add_message(message)
    \/ clear

SpecChat == InitChat /\ [][NextChat]_vars

\* A Bridge, the handlers registered on it and the requests routed.
NextBridge ==
    \/ \E r \in Requests, h \in Handlers : register(r, h)
    \/ \E r \in Requests, i \in RouteInputs : route(r, i)

SpecBridge == Init /\ [][NextBridge]_vars

\* The validators applied to one command.
InitValidate ==
    /\ CacheInit
    /\ CliInit
    /\ AltInit
    /\ BridgeInit
    /\ ChatInit
    /\ gen = [p \in Prompts |-> Err]
    /\ cmd \in Inputs
    /\ verdict = NoVerdict

NextValidate == Validate

SpecValidate == InitValidate /\ [][NextValidate]_vars


\* The threads are scheduled fairly, Core::new terminates, and parking_lot's
\* RwLock hands the lock to every waiter in the end (it is a fair lock).
Proceed(t) == FastPath(t) \/ DoubleCheck(t) \/ LoadOk(t) \/ LoadFail(t)

FairSpec ==
    /\ Init
    /\ [][Next]_vars
    /\ \A t \in Threads :
        /\ WF_vars(Proceed(t))
        /\ SF_vars(AcquireRead(t))
        /\ SF_vars(AcquireWrite(t))

\* --------------------------------------------------------------- the cache's claims

NoLoadFailed == \A k \in Keys : loadsErr[k] = 0
Loading == {t \in Threads : pc[t] = "loading"}
GotHandle(t) == pc[t] = "ret" /\ result[t].core # None
\* The Arc<Core> owners of allocation h: the slot and the threads.
Holders(h) ==
    (IF cache.core = h THEN 1 ELSE 0) + Cardinality({t \in Threads : held[t] = h})
\* The entries of the single-slot cache.
CacheEntries == IF cache.core = None THEN {} ELSE {<<CachedKey(cache), cache.core>>}
\* Key k is the entry of the slot.
Cached(k) == cache.core # None /\ CachedKey(cache) = k
LoadedFrom(h) == [model_path |-> heap[h].model_path, tokenizer_path |-> heap[h].tokenizer_path]

\* C1 (as stated): while only one key has been requested, Core::new runs at most
\* once, whatever it returns, and never twice at the same time.
C1_ExactlyOneLoad ==
    /\ Cardinality(Loading) <= 1
    /\ \A k \in Keys : requested = {k} => loadsOk[k] + loadsErr[k] <= 1

\* C1 (amended): while only one key has been requested, at most one Core::new
\* succeeds, no two loads are in progress at once, and every caller that got a
\* handle without loading got the cached one, from the fast path or the double-check;
\* a load that fails stores nothing, so the next caller on the slow path loads again.
C1_OneSuccessfulLoad ==
    /\ Cardinality(Loading) <= 1
    /\ \A t \in Loading : writer = t
    /\ \A k \in Keys : requested = {k} =>
        /\ loadsOk[k] <= 1
        /\ Cardinality({t \in Threads : pc[t] = "ret" /\ result[t].via = "loaded"}) <= loadsOk[k]
        /\ \A t \in Threads : GotHandle(t) =>
            /\ loadsOk[k] = 1
            /\ result[t].core = cache.core
            /\ result[t].via \in {"fast", "double", "loaded"}

\* C1 witness: two callers of one key raced; one loaded, the other found the
\* entry in the double-check under the write lock.
C1_Witness ==
    \E t, u \in Threads :
        /\ Cardinality(requested) = 1
        /\ pc[t] = "ret" /\ result[t].via = "loaded"
        /\ pc[u] = "ret" /\ result[u].via = "double"
        /\ result[u].core = result[t].core

\* C2: under fair scheduling every caller in get_or_load_model returns; when no
\* load failed and only one key was requested it returns a handle, and all the
\* handles returned are the one cached model.
C2_AllCallersReturn ==
    \A t \in Threads :
        InCall(t) ~>
            /\ pc[t] = "ret"
            /\ (NoLoadFailed /\ Cardinality(requested) = 1) =>
                /\ result[t].core # None
                /\ heap[result[t].core].live
                /\ \A u \in Threads : GotHandle(u) => result[u].core = result[t].core

\* C2 witness: both callers of one key hold the same live handle, no load failed.
C2_Witness ==
    /\ NoLoadFailed
    /\ Cardinality(requested) = 1
    /\ \A t \in Threads : GotHandle(t) /\ held[t] = cache.core /\ heap[held[t]].live

\* C3: a Core is live exactly as long as the slot or some caller owns an Arc to
\* it, and its strong count is the number of these owners.
C3_HandleValidWhileHeld ==
    \A h \in 1..Len(heap) :
        /\ heap[h].strong = Holders(h)
        /\ heap[h].live <=> Holders(h) > 0

\* C3 witness: a caller still owns a live handle that a later load of another
\* key has pushed out of the slot, and an earlier handle has been released.
C3_Witness ==
    \E t \in Threads :
        /\ held[t] # None
        /\ cache.core # None
        /\ cache.core # held[t]
        /\ heap[held[t]].live
        /\ evicted[LoadedFrom(held[t])] > 0

\* C4: the slot holds at most one entry (an empty slot has no key), and a load
\* that follows a miss on a different key creates a new handle and leaves the
\* slot holding exactly the requested key and that handle.
C4_SingleEntryReplaced ==
    /\ [](Cardinality(CacheEntries) <= 1 /\ (cache.core = None => cache = EmptyCache))
    /\ [][\A t \in Threads :
            (pc[t] = "loading" /\ pc'[t] = "ret" /\ result'[t].core # None) =>
                /\ ~Cached(req[t])
                /\ result'[t].core \notin 1..Len(heap)
                /\ cache'.core = result'[t].core
                /\ CachedKey(cache') = req[t]
                /\ CacheEntries' = {<<req[t], result'[t].core>>}
                /\ CacheEntries' \cap CacheEntries = {}]_vars

\* C4 witness: an entry has been replaced by a load of another key.
C4_Witness ==
    \E t \in Threads :
        /\ pc[t] = "ret" /\ result[t].via = "loaded"
        /\ cache.core = result[t].core
        /\ \E k \in Keys : k # result[t].key /\ evicted[k] > 0

\* C5: a caller whose previous call returned a handle for the same key, with no
\* other key requested since, gets the same handle again and does not load.
C5_SecondCallSameHandle ==
    [][\A t \in Threads :
        (/\ InCall(t) /\ pc'[t] = "ret"
         /\ result[t].core # None /\ result[t].key = req[t] /\ quiet[t]) =>
            /\ result'[t].core = result[t].core
            /\ result'[t].via \in {"fast", "double"}
            /\ loadsOk' = loadsOk /\ loadsErr' = loadsErr]_vars

\* C5 witness: one thread called twice with the same key, nobody else called;
\* the second call came back from the fast path.
C5_Witness ==
    \E t \in Threads :
        /\ calls = 2
        /\ \A u \in Threads \ {t} : result[u] = NoResult /\ pc[u] = "idle"
        /\ pc[t] = "ret" /\ result[t].via = "fast" /\ quiet[t]
        /\ loadsOk[result[t].key] = 1

C7_ReaderGetsHandle ==
    \A t \in Threads :
        (pc[t] = "ret" /\ contended[t]) =>
            result[t].core # None /\ LoadedFrom(result[t].core) = req[t]

\* C7 (amended): writers exclude each other and the readers; a caller that asked
\* for the cached key A while key B was being loaded returns in the end, with a
\* handle loaded from A (the cached one, or a new one when B has replaced A), or
\* with the load error when B has replaced A and the reload of A fails.
C7_ReaderReturns ==
    /\ [](/\ Cardinality({t \in Threads : pc[t] \in {"dcheck", "loading"}}) <= 1
          /\ \A t \in Threads : pc[t] \in {"dcheck", "loading"} <=> writer = t
          /\ writer # None => readers = {}
          /\ \A t \in Threads : pc[t] = "fast" <=> t \in readers)
    /\ \A t \in Threads :
        (InCall(t) /\ contended[t]) ~>
            /\ pc[t] = "ret"
            /\ \/ result[t].core # None /\ LoadedFrom(result[t].core) = req[t]
               \/ result[t].via = "failed" /\ evicted[req[t]] > 0

\* C7 witness: the caller that asked for the cached key during the load of
\* another key came back with a handle it had to load again.
C7_Witness ==
    \E t \in Threads :
        pc[t] = "ret" /\ contended[t] /\ result[t].via = "loaded"


\* --------------------------------------------------------------- C8 .. C10

\* C8 No command produced by the system is ever executed automatically: no
\* operation of Core passes a command the model generated to a shell.
C8_NeverExecuted == \A i \in 1..Len(shell) : ~shell[i].generated

\* The lines of stdout that show a suggestion: the single command and the
\* numbered alternatives.
C9_Suggestions == {i \in 1..Len(stdout) : stdout[i].kind \in {"command", "alternative"}}

\* C9 Every command the `core` subcommand (or the Core handler) writes to stdout
\* as a suggestion is one for which is_safe_command returned true; a generated
\* command that fails validation is never printed as a suggestion.
C9_PrintedAreSafe ==
    /\ \A i \in C9_Suggestions : Core_is_safe_command(stdout[i].command)
    /\ \A p \in Prompts :
         (gen[p].ok /\ ~Core_is_safe_command(gen[p].val))
            => \A i \in C9_Suggestions : stdout[i].command # gen[p].val

\* C9's case: a run that printed one alternative and held another one back.
C9_Witness ==
    /\ ret.op = "core"
    /\ \E i \in C9_Suggestions : stdout[i].kind = "alternative"
    /\ \E i \in 1..Len(stderr) : stderr[i].kind = "warn" /\ stderr[i].command # <<>>

\* The first whitespace-separated token of s, read off the string's positions;
\* the empty string when s has none.
C10_LeadingToken(s) ==
    LET solid == {i \in 1..Len(s) : s[i] \notin WhiteSpace}
    IN IF solid = {} THEN <<>>
       ELSE LET b == CHOOSE i \in solid : \A j \in solid : i <= j
                stops == {i \in b..Len(s) : i = Len(s) \/ s[i + 1] \in WhiteSpace}
                e == CHOOSE i \in stops : \A j \in stops : i <= j
            IN SubSeq(s, b, e)

C10_Blank(s) == \A i \in 1..Len(s) : s[i] \in WhiteSpace

\* C10 as stated: is_safe_command returns false for every string whose first
\* whitespace-separated token is not an entry of the allow-list, and for the
\* empty and the whitespace-only strings.
C10_TokenNotListedRejected ==
    verdict.done =>
        /\ C10_LeadingToken(cmd) \notin allowed_commands => ~verdict.validation
        /\ C10_Blank(cmd) => ~verdict.validation

\* C10 amended: is_safe_command returns false for every string whose first
\* whitespace-separated token, lower-cased, is not an entry of the allow-list,
\* and for the empty and the whitespace-only strings.
C10_LowerTokenNotListedRejected ==
    verdict.done =>
        /\ to_lowercase(C10_LeadingToken(cmd)) \notin allowed_commands => ~verdict.validation
        /\ C10_Blank(cmd) => ~verdict.validation

\* C10's case: a command with nothing dangerous and no metacharacter in it,
\* refused for its first token alone.
C10_Witness ==
    /\ verdict.done
    /\ ~C10_Blank(cmd)
    /\ to_lowercase(C10_LeadingToken(cmd)) \notin allowed_commands
    /\ ~DangerousStage(cmd)
    /\ ~InjectionStage(cmd)
    /\ ~verdict.validation


\* -------------------------------------------------------------- C11 .. C14

\* p occurs in s at some position; in any case: whatever the case of the
\* letters of s there.
C11_Occurs(s, p) ==
    \E i \in 1..Len(s) : i + Len(p) - 1 <= Len(s) /\ SubSeq(s, i, i + Len(p) - 1) = p
C13_OccursAnyCase(s, p) == C11_Occurs(to_lowercase(s), p)

C11_HasMetacharacter(s) == \E p \in shell_injection_patterns : C11_Occurs(s, p)
C13_HasDenied(s) == \E p \in dangerous_patterns : C13_OccursAnyCase(s, p)

\* C11 is_safe_command returns false for every string that contains an entry of
\* the shell-metacharacter set, even when the leading token is allow-listed and
\* no deny-listed token occurs.
C11_MetacharacterRejected ==
    (verdict.done /\ C11_HasMetacharacter(cmd)) => ~verdict.validation

\* C11's case: an allowed command, nothing denied in it, refused for a
\* metacharacter.
C11_Witness ==
    /\ verdict.done
    /\ C11_HasMetacharacter(cmd)
    /\ C10_LeadingToken(cmd) \in allowed_commands
    /\ ~C13_HasDenied(cmd)
    /\ ~verdict.validation

\* C12 as stated: is_safe_command returns true for every string whose leading
\* token is allow-listed and which contains no deny-listed token and no shell
\* metacharacter.
C12_CleanAccepted ==
    (/\ verdict.done
     /\ to_lowercase(C10_LeadingToken(cmd)) \in allowed_commands
     /\ ~C13_HasDenied(cmd)
     /\ ~C11_HasMetacharacter(cmd))
        => verdict.validation

\* C12 amended: ... and which does not contain "IFS" in any case of its letters.
C12_CleanWithoutIfsAccepted ==
    (/\ verdict.done
     /\ to_lowercase(C10_LeadingToken(cmd)) \in allowed_commands
     /\ ~C13_HasDenied(cmd)
     /\ ~C11_HasMetacharacter(cmd)
     /\ ~C13_OccursAnyCase(cmd, <<"i", "f", "s">>))
        => verdict.validation

\* C12's case: an allowed command in upper case with an argument, accepted.
C12_Witness ==
    /\ verdict.done
    /\ C10_LeadingToken(cmd) \notin allowed_commands
    /\ to_lowercase(C10_LeadingToken(cmd)) \in allowed_commands
    /\ Len(cmd) > Len(C10_LeadingToken(cmd)) + 1
    /\ ~C10_Blank(SubSeq(cmd, Len(C10_LeadingToken(cmd)) + 1, Len(cmd)))
    /\ verdict.validation

\* C13 The deny-list check is case-invariant: is_safe_command (validation.rs)
\* and Core::is_safe_command (tract_llm.rs) return false for every string that
\* contains a deny-listed token in any combination of upper and lower case
\* letters, wherever it occurs.
C13_DeniedRejectedInAnyCase ==
    (verdict.done /\ C13_HasDenied(cmd)) => (~verdict.validation /\ ~verdict.tract)

\* C13's case: a denied word in mixed case, not at the start, in a command that
\* has it in no other spelling and has no metacharacter.
C13_Witness ==
    /\ verdict.done
    /\ C13_HasDenied(cmd)
    /\ ~\E p \in dangerous_patterns : C11_Occurs(cmd, p)
    /\ ~C11_HasMetacharacter(cmd)
    /\ C10_LeadingToken(cmd) \in allowed_commands
    /\ ~verdict.validation
    /\ ~verdict.tract

\* s with the letters of its leading token in lower case.
C14_LowerLeading(s) ==
    LET solid == {i \in 1..Len(s) : s[i] \notin WhiteSpace}
    IN IF solid = {} THEN s
       ELSE LET b == CHOOSE i \in solid : \A j \in solid : i <= j
                e == b + Len(C10_LeadingToken(s)) - 1
            IN [i \in 1..Len(s) |->
                    IF b <= i /\ i <= e THEN to_lowercase(<<s[i]>>)[1] ELSE s[i]]

\* C14 Every validator compares the leading token case-insensitively: when the
\* command with its leading token in lower case is accepted, the command with
\* the token in upper or mixed case is accepted too, by is_safe_command
\* (validation.rs) and by Core::is_safe_command (tract_llm.rs).
C14_GateIgnoresCase ==
    verdict.done =>
        /\ is_safe_command(C14_LowerLeading(cmd)) => verdict.validation
        /\ Core_is_safe_command(C14_LowerLeading(cmd)) => verdict.tract


\* -------------------------------------------------------------- C15 .. C18

\* The call's base command, and the prompt variants it gave to the model.
C15_Base == gen[alts.input]
C15_VariantCalls == 2..Len(alts.calls)

\* C15 A generate_alternatives(input, count) that succeeds returns a sequence
\* of length exactly count for every count >= 1, and for count = 0 the empty
\* sequence without invoking the model, whatever the variant generations
\* return and whether or not they fail.
C15_LengthIsCount ==
    (alts.done /\ alts.ok) =>
        /\ Len(alts.val) = alts.count
        /\ alts.count = 0 => alts.calls = <<>>

\* C15's case: every variant answered, one of them with nothing new, and the
\* list was filled up to count.
C15_Witness ==
    /\ alts.done /\ alts.ok
    /\ alts.count >= 3
    /\ Len(alts.calls) = alts.count
    /\ \A i \in C15_VariantCalls : gen[alts.calls[i]].ok
    /\ \E i \in C15_VariantCalls : gen[alts.calls[i]] = C15_Base
    /\ alts.val[alts.count] = C15_Base.val

\* C16 For every count >= 1 the first element of the returned sequence is the
\* result of generate_command on the unmodified prompt; for count = 1 the
\* sequence is that single element.
C16_BaseFirst ==
    (alts.done /\ alts.ok /\ alts.count >= 1) =>
        /\ alts.calls[1] = alts.input
        /\ alts.val[1] = C15_Base.val
        /\ alts.count = 1 => alts.val = <<C15_Base.val>>

\* C16's case: a list whose second element is a variant's command.
C16_Witness ==
    /\ alts.done /\ alts.ok
    /\ alts.count >= 2
    /\ alts.val[2] # alts.val[1]

\* C17 For count >= 1 generate_alternatives returns an error exactly when the
\* generation for the base prompt fails, and then no list; a variant's failure
\* is skipped.
C17_ErrorIffBaseFails ==
    (alts.done /\ alts.count >= 1) =>
        /\ alts.ok <=> C15_Base.ok
        /\ ~alts.ok => alts.val = <<>>

\* C17's case: a variant failed, the next one was still asked, and the call
\* succeeded.
C17_Witness ==
    /\ alts.done /\ alts.ok
    /\ \E i \in C15_VariantCalls :
         /\ ~gen[alts.calls[i]].ok
         /\ i < Len(alts.calls)
         /\ gen[alts.calls[i + 1]].ok
         /\ InSeq(alts.val, gen[alts.calls[i + 1]].val)

\* C18 The returned sequence is a prefix of pairwise distinct commands, the
\* base first and then commands that variants returned, followed by nothing
\* but copies of the base command.
C18_DuplicatesOnlyFromPadding ==
    (alts.done /\ alts.ok /\ alts.count >= 1) =>
        \E k \in 1..Len(alts.val) :
            /\ alts.val[1] = C15_Base.val
            /\ \A i, j \in 1..k : i # j => alts.val[i] # alts.val[j]
            /\ \A i \in 2..k :
                 \E c \in C15_VariantCalls : gen[alts.calls[c]] = Ok(alts.val[i])
            /\ \A i \in (k + 1)..Len(alts.val) : alts.val[i] = C15_Base.val

\* C18's case: two variants returned the same command, which differs from the
\* base; it is in the list once and the base fills the list.
C18_Witness ==
    /\ alts.done /\ alts.ok
    /\ alts.count = 3
    /\ gen[alts.calls[2]].ok
    /\ gen[alts.calls[2]] = gen[alts.calls[3]]
    /\ gen[alts.calls[2]] # C15_Base
    /\ alts.val = <<C15_Base.val, gen[alts.calls[2]].val, C15_Base.val>>


\* --------------------------------------------------------------------- C19

\* C19 Whenever a generated command fails is_safe_command, the CLI reports it
\* as rejected and still shows its text, in the single-command path and for
\* each rejected alternative: a line of stderr carries the rejected command.
C19_RejectedShown ==
    ret.op \in {"core", "handler"} =>
        \A i \in 1..Len(model_output) :
            ~Core_is_safe_command(model_output[i]) =>
                \E j \in 1..Len(stderr) : stderr[j].command = model_output[i]


\* --------------------------------------------------------------------- C20

\* C20 After every successful add_message, for any configured limits, the
\* total byte size of the retained messages is at most max_bytes_total.
C20_TotalWithinLimit ==
    (last.op = "add_message" /\ last.ok) => total_bytes(messages) <= max_bytes_total


\* -------------------------------------------------------------- C21 .. C22

\* a is what is left of b when some of its first elements are removed.
C21_Suffix(a, b) ==
    /\ Len(a) <= Len(b)
    /\ \A i \in 1..Len(a) : a[i] = b[Len(b) - Len(a) + i]

\* C21 After any sequence of add_message and clear calls, len() <= max_messages
\* and the retained messages are a suffix of the messages accepted since the
\* last clear, in their order.
C21_RetainedIsSuffix ==
    /\ Len(messages) <= max_messages
    /\ C21_Suffix(messages, kept_since_clear)

\* C21's case: the history is full and an accepted message has been evicted
\* from it.
C21_Witness ==
    /\ last.op = "add_message" /\ last.ok
    /\ Len(messages) = max_messages
    /\ Len(messages) >= 2
    /\ Len(kept_since_clear) > Len(messages)
    /\ messages[1] # kept_since_clear[1]

\* C22 add_message with content larger than max_bytes_per_message returns Err
\* and leaves the history as it was; content of exactly max_bytes_per_message
\* bytes is accepted.
C22_TooLargeRefused ==
    last.op = "add_message" =>
        /\ Len(last.message.content) > max_bytes_per_message
                => (~last.ok /\ messages = last.before)
        /\ Len(last.message.content) = max_bytes_per_message => last.ok

\* C22's case: a message over the limit was refused by a history that holds
\* messages, one of them of exactly the limit.
C22_Witness ==
    /\ last.op = "add_message" /\ ~last.ok
    /\ Len(last.message.content) > max_bytes_per_message
    /\ \E i \in 1..Len(messages) : Len(messages[i].content) = max_bytes_per_message

\* An error of route's own wording.
C23_NoHandlerRegistered(res) ==
    /\ ~res.ok
    /\ \E r \in Requests : res.err = "No handler registered for request: " \o r

\* C23 route returns the 'No handler registered' error without invoking a
\* handler exactly when no handler was ever registered for the request type;
\* otherwise it invokes the handler registered last for that type, once, with
\* the given input, and returns its result unchanged; no other handler runs.
C23_RoutesToLatest ==
    routed.op = "route" =>
        LET history == registered[routed.request]
        IN  /\ (C23_NoHandlerRegistered(routed.result) /\ routed.invoked = <<>>)
                    <=> history = <<>>
            /\ history # <<>> =>
                 /\ routed.invoked = <<[handler |-> history[Len(history)],
                                        input |-> routed.input]>>
                 /\ routed.result = HandlerResult(history[Len(history)], routed.input)

\* C23's case: a request type whose handler was replaced is routed while
\* another type has a different handler.
C23_Witness ==
    /\ routed.op = "route"
    /\ Len(registered[routed.request]) = 2
    /\ registered[routed.request][1] # registered[routed.request][2]
    /\ \E r \in Requests \ {routed.request} :
            /\ registered[r] # <<>>
            /\ router[r] # router[routed.request]

\* The step with which thread t leaves the position p of its call.
C24_Leaves(t, p) == pc[t] = p /\ pc'[t] # p

\* C24 a caller whose key is the cached one returns the cached handle from the
\* read-locked fast path and holds the write lock at no point of the call; a
\* caller that missed and finds its key cached under the write lock returns the
\* cached handle and nothing is loaded.
C24_FastPathStep ==
    [][\A t \in Threads :
        /\ (C24_Leaves(t, "fast") /\ CacheHit(cache, req[t])) =>
              /\ t \in readers /\ writer = None /\ writer' = None
              /\ pc'[t] = "ret"
              /\ result'[t] = [via |-> "fast", core |-> cache.core, key |-> req[t]]
              /\ <<cache, loadsOk, loadsErr>>' = <<cache, loadsOk, loadsErr>>
        /\ C24_Leaves(t, "read_wait") => (writer = None /\ writer' = None /\ pc'[t] = "fast")
        /\ (C24_Leaves(t, "dcheck") /\ CacheHit(cache, req[t])) =>
              /\ writer = t
              /\ pc'[t] = "ret"
              /\ result'[t] = [via |-> "double", core |-> cache.core, key |-> req[t]]
              /\ <<cache, loadsOk, loadsErr>>' = <<cache, loadsOk, loadsErr>>]_vars

\* C24's case: two callers of the cached key are in the fast path at the same
\* time.
C24_Witness ==
    /\ Cardinality(readers) >= 2
    /\ \A t \in readers : pc[t] = "fast" /\ CacheHit(cache, req[t])

\* The other case of C24: a caller is served by the double check while another
\* is in the fast path with the cached key.
C24_DoubleCheckServed ==
    \E a, b \in Threads :
        /\ pc[a] = "fast" /\ CacheHit(cache, req[a])
        /\ pc[b] = "ret" /\ result[b].via = "double"

\* C27 a failed load returns the error and leaves the cache exactly as it was:
\* the entry of another key stays cached, the failed key is recorded nowhere,
\* and a caller whose key is not the cached one always goes on to a new load,
\* whether or not that key failed before.
C27_FailureLeavesCache ==
    [][\A t \in Threads :
        /\ (pc[t] = "loading" /\ pc'[t] = "ret" /\ result'[t].via = "failed") =>
              /\ result'[t].core = None /\ held'[t] = None
              /\ <<cache, heap, loadsOk>>' = <<cache, heap, loadsOk>>
              /\ writer' = None
        /\ (pc[t] = "fast" /\ pc'[t] # "fast" /\ ~CacheHit(cache, req[t])) =>
              pc'[t] = "write_wait"
        /\ (pc[t] = "dcheck" /\ pc'[t] # "dcheck" /\ ~CacheHit(cache, req[t])) =>
              pc'[t] = "loading"]_vars

\* C27's case: the load of a key failed while another key was cached, the other
\* key is still the cached one and a later call for the failed key is loading
\* again.
C27_Witness ==
    \E t \in Threads, k \in Keys :
        /\ loadsErr[k] >= 1 /\ loadsOk[k] = 0
        /\ cache.core # None /\ CachedKey(cache) # k /\ heap[cache.core].live
        /\ pc[t] = "loading" /\ req[t] = k

\* C28 the cached handle was loaded from exactly the model and tokenizer pair
\* recorded in the cache, and every handle returned to a caller was loaded from
\* the pair that caller requested.
C28_HandleMatchesKey ==
    /\ cache.core # None => LoadedFrom(cache.core) = CachedKey(cache)
    /\ \A t \in Threads :
          (pc[t] = "ret" /\ result[t].core # None) =>
              /\ held[t] = result[t].core
              /\ LoadedFrom(held[t]) = req[t]

\* C28's case: two callers hold handles of different keys, one served from the
\* cache and the other by the load that replaced the entry.
C28_Witness ==
    \E a, b \in Threads :
        /\ pc[a] = "ret" /\ pc[b] = "ret"
        /\ result[a].via \in {"fast", "double"} /\ result[b].via = "loaded"
        /\ req[a] # req[b]
        /\ cache.core = held[b]

\* The suffixes of the variants, in their order.
C25_Suffixes == <<" with details", " verbose", " concise", " with all options", " simple">>

\* C25 for count >= 2 generate_alternatives gives the model the base prompt
\* first and then at most min(count - 1, 5) variants, in the order of the
\* suffixes, stopping before the last of them only when the list has count
\* elements: no other prompt, and at most 1 + min(count - 1, 5) generations.
C25_CallsInOrder ==
    (alts.done /\ alts.count >= 2) =>
        /\ Len(alts.calls) >= 1
        /\ alts.calls[1] = alts.input
        /\ Len(alts.calls) <= 1 + Min(alts.count - 1, 5)
        /\ \A i \in 2..Len(alts.calls) : alts.calls[i] = alts.input \o C25_Suffixes[i - 1]
        /\ (alts.ok /\ Len(alts.calls) < 1 + Min(alts.count - 1, 5)) =>
              \A i, j \in 1..alts.count : i # j => alts.val[i] # alts.val[j]
        /\ ~alts.ok => alts.calls = <<alts.input>>

\* C25's case: a call for more than six alternatives stopped after the five
\* variants.
C25_Witness ==
    /\ alts.done /\ alts.ok
    /\ alts.count > 6
    /\ Len(alts.calls) = 6
    /\ alts.calls[6] = alts.input \o " simple"

\* What a call that had to validate command may have done: with the validator's
\* true, nothing but command went to the shell; otherwise nothing was spawned
\* and the error is the refusal.
C29_Validated(safe, command) ==
    IF safe
    THEN \A i \in 1..Len(shell') : shell'[i].command = command
    ELSE /\ shell' = <<>>
         /\ ~ret'.ok /\ ret'.text = "Command is not allowed."

\* C29 execute_command passes a command to the shell only if is_safe_command of
\* the same Core returned true for that string, and otherwise returns
\* Err("Command is not allowed.") and spawns nothing; run executes nothing but
\* the generated command, validated in the same way.
C29_OnlyValidatedExecuted ==
    [][/\ ret'.op = "execute_command" =>
            \A c \in Outputs, st \in Statuses :
                /\ CoreExecuteCommand(c, st) => C29_Validated(Core_is_safe_command(c), c)
                /\ LibExecuteCommand(c, st) => C29_Validated(Lib_is_safe_command(c), c)
       /\ ret'.op = "run" => \A st \in Statuses :
            /\ CoreRun(BasePrompt, st) =>
                 IF gen[BasePrompt].ok
                 THEN C29_Validated(Core_is_safe_command(gen[BasePrompt].val),
                                    gen[BasePrompt].val)
                 ELSE shell' = <<>>
            /\ LibRun(BasePrompt, st) =>
                 IF gen[BasePrompt].ok
                 THEN C29_Validated(Lib_is_safe_command(gen[BasePrompt].val),
                                    gen[BasePrompt].val)
                 ELSE shell' = <<>>]_vars

\* C29's case: run generated a command, the validator refused it and nothing
\* was spawned.
C29_Witness ==
    /\ ret.op = "run" /\ ~ret.ok /\ ret.text = "Command is not allowed."
    /\ model_output # <<>>
    /\ ~Core_is_safe_command(model_output[1])
    /\ shell = <<>>

\* Commands that create or remove files.
C26_WriteCommands ==
    {<<"t", "o", "u", "c", "h">>, <<"m", "k", "d", "i", "r">>, <<"r", "m">>}

\* C26 no validator accepts a command whose leading token is a write command,
\* touch and mkdir included: the allow-list of validation.rs and the one of
\* tract_llm.rs are read-only.
C26_AllowListReadOnly ==
    (verdict.done /\ first_word_of(trim(cmd)) \in C26_WriteCommands) =>
        /\ ~verdict.validation
        /\ ~verdict.tract

\* is_safe_command without the encoding check and with the lower-cased
\* substring test as the only test of the deny-list.
C30_WithoutRedundantTests(command) ==
    /\ ~\E p \in dangerous_patterns : contains(to_lowercase(command), p)
    /\ ~InjectionStage(command)
    /\ ~WhitelistStage(command)
    /\ ~IfsStage(command)

\* C30 every string the encoding check rejects contains the backslash of the
\* metacharacter list; every string with a deny-list token at the start of the
\* trimmed command or after a "/" has that token in its lower-cased text; and
\* is_safe_command without these three tests returns the same for every input.
C30_RedundantTests ==
    verdict.done =>
        /\ (contains(cmd, <<"\\", "x">>) \/ contains(cmd, <<"\\", "0">>)) =>
              /\ contains(cmd, <<"\\">>)
              /\ <<"\\">> \in shell_injection_patterns
        /\ \A p \in dangerous_patterns :
              (starts_with(trim(cmd), p) \/ contains(to_lowercase(cmd), <<"/">> \o p))
                  => contains(to_lowercase(cmd), p)
        /\ verdict.validation = C30_WithoutRedundantTests(cmd)

\* C30's case: an allowed command with an encoded character and no deny-list
\* token, which the encoding check would refuse, is refused.
C30_Witness ==
    /\ verdict.done /\ ~verdict.validation
    /\ contains(cmd, <<"\\", "x">>)
    /\ ~WhitelistStage(cmd)
    /\ ~\E p \in dangerous_patterns : contains(to_lowercase(cmd), p)

\* The other cases of C30: a deny-list token in upper case after a "/", and a
\* token at the start of the trimmed command after white space.
C30_SlashTokenRefused ==
    /\ verdict.done /\ ~verdict.validation
    /\ \E p \in dangerous_patterns :
          /\ contains(to_lowercase(cmd), <<"/">> \o p)
          /\ ~contains(cmd, p)
C30_LeadingTokenRefused ==
    /\ verdict.done /\ ~verdict.validation
    /\ cmd # trim(cmd)
    /\ \E p \in dangerous_patterns : starts_with(trim(cmd), p)

=============================================================================
